---- MODULE Spec2Model ----
(***************************************************************************)
(* Model of deploy_to_github.py: a sequential script that wipes .git,      *)
(* re-initialises the repository, configures it, adds a remote, pushes a   *)
(* batch of essential files with force and then pushes a list of           *)
(* additional paths one by one.                                            *)
(*                                                                         *)
(* The environment (which paths exist, how each child process ends, how    *)
(* the directory removal ends) is nondeterministic.  Every command the     *)
(* script issues and every line main() prints is appended to `trace`.      *)
(***************************************************************************)
EXTENDS Integers, Sequences, FiniteSets

VARIABLES pc, trace, fs, gitDir, cleanup, initResult, i, j,
          child, ret, printed, stageFailed, exitStatus

vars == <<pc, trace, fs, gitDir, cleanup, initResult, i, j,
          child, ret, printed, stageFailed, exitStatus>>

\* Largest non-zero exit status a child process is let to return.
MaxRet == 1

\* ------------------------------------------------------------------------
\* Literals of the script

essential_files == <<"package.json", "REPOSITORY_MANIFEST.md", "SAAS_REQUIREMENTS.md">>

dirs_to_add == <<"packages/domain-lock", "apps/web/middleware.ts", ".github", "docs", "nginx">>

Range(s) == {s[k] : k \in DOMAIN s}

EssentialSet == Range(essential_files)

AdditionalSet == Range(dirs_to_add)

\* ------------------------------------------------------------------------
\* Events recorded in the trace

Cmd(op, arg) == [op |-> op, arg |-> arg]

Say(msg) == [op |-> "print", arg |-> msg]

InitCmd == Cmd("init", "-b main")

ConfigCmd_swapped(k) ==
    IF k = 1 THEN Cmd("config", "core.filemode false")
    ELSE IF k = 2 THEN Cmd("config", "core.autocrlf false")
    ELSE Cmd("config", "core.compression 0")

ConfigCmd(k) ==
    IF k = 1 THEN Cmd("config", "core.autocrlf false")
    ELSE IF k = 2 THEN Cmd("config", "core.filemode false")
    ELSE Cmd("config", "core.compression 0")

RemoteAddCmd == Cmd("remote_add", "origin")

AddCmd(p) == Cmd("add", p)

EssentialCommitCmd == Cmd("commit", "Initial commit")

CommitCmd(p) == Cmd("commit", p)

ForcePushCmd == Cmd("push_force", "origin main")

PushCmd(p) == Cmd("push", p)

RmtreeEvent == Cmd("rmtree", ".git")

\* ------------------------------------------------------------------------
\* Environment: how a child process or a directory removal can end

Outcomes ==
    {[kind |-> "exit", code |-> c] : c \in 0..MaxRet} \cup {[kind |-> "raise", code |-> 0]}

NoChild == [kind |-> "none", code |-> 0]

RmOutcomes == {"removed", "error"}

\* ------------------------------------------------------------------------
\* run_cmd: value returned to the caller, or an exception that escapes

Returned(b) == [raised |-> FALSE, value |-> b]

Raised == [raised |-> TRUE, value |-> FALSE]

run_cmd_nocatch(o) ==
    IF o.kind = "raise" THEN Raised ELSE Returned(o.code = 0)

run_cmd(o) ==
    IF o.kind = "raise" THEN Returned(FALSE) ELSE Returned(o.code = 0)

\* what run_cmd itself prints for the call
run_cmd_print(o) ==
    IF o.kind = "raise" THEN "Exception"
    ELSE IF o.code # 0 THEN "Error"
    ELSE "none"

rmtree_strict(o) ==
    [raised |-> o = "error", removed |-> o = "removed"]

\* shutil.rmtree(".git", ignore_errors=True)
rmtree(o) ==
    [raised |-> FALSE, removed |-> o = "removed"]

path_exists_always(p) == TRUE

\* os.path.exists
path_exists(p) == p \in fs

\* ------------------------------------------------------------------------
\* Control-flow decisions of main()

AfterInit_continue(ok) == "config1"

\* if not run_cmd("git init -b main"): return
AfterInit(ok) == IF ok THEN "config1" ELSE "return"

AfterAdd_always(ok) == "addl_commit"

AfterAdd_break(ok) == IF ok THEN "addl_commit" ELSE "summary"

\* if run_cmd(f"git add {dir_path}"): commit and push, else next path
AfterAdd(ok) == IF ok THEN "addl_commit" ELSE "additional"

\* One call of run_cmd from main: `before` is printed by main ahead of the
\* call, `afterOk`/`afterFail` after it; the next position depends on the result.
Issue(before, c, o, pcOk, pcFail, afterOk, afterFail) ==
    LET r == run_cmd(o) IN
    /\ child' = o
    /\ ret' = r
    /\ printed' = run_cmd_print(o)
    /\ trace' = (trace \o before \o <<c>>) \o
                (IF r.raised THEN <<>> ELSE IF r.value THEN afterOk ELSE afterFail)
    /\ pc' = IF r.raised THEN "crashed" ELSE IF r.value THEN pcOk ELSE pcFail

\* ------------------------------------------------------------------------
Init ==
    /\ pc = "start"
    /\ trace = <<>>
    /\ fs \in SUBSET (EssentialSet \cup AdditionalSet)
    /\ gitDir \in BOOLEAN
    /\ cleanup = "none"
    /\ initResult = "none"
    /\ i = 1
    /\ j = 1
    /\ child = NoChild
    /\ ret = Returned(FALSE)
    /\ printed = "none"
    /\ stageFailed = {}
    /\ exitStatus = <<>>

Start ==
    /\ pc = "start"
    /\ trace' = trace \o <<Say("Deploying"), Say("Cleaning up")>>
    /\ pc' = "clean"
    /\ UNCHANGED <<fs, gitDir, cleanup, initResult, i, j, child, ret, printed,
                   stageFailed, exitStatus>>

Clean ==
    /\ pc = "clean"
    /\ IF gitDir
       THEN \E o \in RmOutcomes :
              LET rm == rmtree(o) IN
              /\ trace' = Append(trace, RmtreeEvent)
              /\ gitDir' = ~rm.removed
              /\ cleanup' = o
              /\ pc' = IF rm.raised THEN "crashed" ELSE "init"
       ELSE /\ cleanup' = "absent"
            /\ pc' = "init"
            /\ UNCHANGED <<trace, gitDir>>
    /\ UNCHANGED <<fs, initResult, i, j, child, ret, printed, stageFailed, exitStatus>>

InitRepo ==
    /\ pc = "init"
    /\ \E o \in Outcomes :
         /\ Issue(<<Say("Initializing")>>, InitCmd, o,
                  AfterInit(TRUE), AfterInit(FALSE), <<>>, <<>>)
         /\ initResult' = IF run_cmd(o).raised THEN "raised"
                          ELSE IF run_cmd(o).value THEN "ok" ELSE "failed"
    /\ UNCHANGED <<fs, gitDir, cleanup, i, j, stageFailed, exitStatus>>

Config1 ==
    /\ pc = "config1"
    /\ \E o \in Outcomes :
         Issue(<<>>, ConfigCmd(1), o, "config2", "config2", <<>>, <<>>)
    /\ UNCHANGED <<fs, gitDir, cleanup, initResult, i, j, stageFailed, exitStatus>>

Config2 ==
    /\ pc = "config2"
    /\ \E o \in Outcomes :
         Issue(<<>>, ConfigCmd(2), o, "config3", "config3", <<>>, <<>>)
    /\ UNCHANGED <<fs, gitDir, cleanup, initResult, i, j, stageFailed, exitStatus>>

Config3 ==
    /\ pc = "config3"
    /\ \E o \in Outcomes :
         Issue(<<>>, ConfigCmd(3), o, "remote", "remote", <<>>, <<>>)
    /\ UNCHANGED <<fs, gitDir, cleanup, initResult, i, j, stageFailed, exitStatus>>

AddRemote ==
    /\ pc = "remote"
    /\ \E o \in Outcomes :
         Issue(<<Say("Adding GitHub remote")>>, RemoteAddCmd, o,
               "essential_begin", "essential_begin", <<>>, <<>>)
    /\ UNCHANGED <<fs, gitDir, cleanup, initResult, i, j, stageFailed, exitStatus>>

EssentialBegin ==
    /\ pc = "essential_begin"
    /\ trace' = Append(trace, Say("Adding essential files"))
    /\ i' = 1
    /\ pc' = "essential"
    /\ UNCHANGED <<fs, gitDir, cleanup, initResult, j, child, ret, printed,
                   stageFailed, exitStatus>>

StageEssential_break ==
    /\ pc = "essential"
    /\ IF i > Len(essential_files)
       THEN /\ pc' = "commit"
            /\ UNCHANGED <<trace, i, child, ret, printed, stageFailed>>
       ELSE IF path_exists(essential_files[i])
       THEN \E o \in Outcomes :
              /\ Issue(<<>>, AddCmd(essential_files[i]), o,
                       "essential", "commit", <<>>, <<>>)
              /\ stageFailed' = IF run_cmd(o).value THEN stageFailed
                                ELSE stageFailed \cup {essential_files[i]}
              /\ i' = i + 1
       ELSE /\ i' = i + 1
            /\ UNCHANGED <<pc, trace, child, ret, printed, stageFailed>>
    /\ UNCHANGED <<fs, gitDir, cleanup, initResult, j, exitStatus>>

\* for file in essential_files: if os.path.exists(file): run_cmd(f"git add {file}")
StageEssential ==
    /\ pc = "essential"
    /\ IF i > Len(essential_files)
       THEN /\ pc' = "commit"
            /\ UNCHANGED <<trace, i, child, ret, printed, stageFailed>>
       ELSE IF path_exists(essential_files[i])
       THEN \E o \in Outcomes :
              /\ Issue(<<>>, AddCmd(essential_files[i]), o,
                       "essential", "essential", <<>>, <<>>)
              /\ stageFailed' = IF run_cmd(o).value THEN stageFailed
                                ELSE stageFailed \cup {essential_files[i]}
              /\ i' = i + 1
       ELSE /\ i' = i + 1
            /\ UNCHANGED <<pc, trace, child, ret, printed, stageFailed>>
    /\ UNCHANGED <<fs, gitDir, cleanup, initResult, j, exitStatus>>

CommitEssential_abort ==
    /\ pc = "commit"
    /\ \E o \in Outcomes :
         Issue(<<Say("Creating initial commit")>>, EssentialCommitCmd, o,
               "forcepush", "return", <<>>, <<>>)
    /\ UNCHANGED <<fs, gitDir, cleanup, initResult, i, j, stageFailed, exitStatus>>

CommitEssential ==
    /\ pc = "commit"
    /\ \E o \in Outcomes :
         Issue(<<Say("Creating initial commit")>>, EssentialCommitCmd, o,
               "forcepush", "forcepush", <<>>, <<>>)
    /\ UNCHANGED <<fs, gitDir, cleanup, initResult, i, j, stageFailed, exitStatus>>

ForcePush ==
    /\ pc = "forcepush"
    /\ \E o \in Outcomes :
         Issue(<<Say("Pushing to GitHub")>>, ForcePushCmd, o,
               "batches_begin", "batches_begin",
               <<Say("Successfully pushed essential files")>>,
               <<Say("Failed to push"), Say("Run: git push -f origin main")>>)
    /\ UNCHANGED <<fs, gitDir, cleanup, initResult, i, j, stageFailed, exitStatus>>

BatchesBegin ==
    /\ pc = "batches_begin"
    /\ trace' = Append(trace, Say("Adding additional files in batches"))
    /\ j' = 1
    /\ pc' = "additional"
    /\ UNCHANGED <<fs, gitDir, cleanup, initResult, i, child, ret, printed,
                   stageFailed, exitStatus>>

\* for dir_path in dirs_to_add: if os.path.exists(dir_path): print; git add
StageAdditional ==
    /\ pc = "additional"
    /\ IF j > Len(dirs_to_add)
       THEN /\ pc' = "summary"
            /\ UNCHANGED <<trace, j, child, ret, printed, stageFailed>>
       ELSE IF path_exists(dirs_to_add[j])
       THEN \E o \in Outcomes :
              /\ Issue(<<Say(dirs_to_add[j])>>, AddCmd(dirs_to_add[j]), o,
                       AfterAdd(TRUE), AfterAdd(FALSE), <<>>, <<>>)
              /\ stageFailed' = IF run_cmd(o).value THEN stageFailed
                                ELSE stageFailed \cup {dirs_to_add[j]}
              /\ j' = IF AfterAdd(run_cmd(o).value) = "addl_commit" THEN j ELSE j + 1
       ELSE /\ j' = j + 1
            /\ UNCHANGED <<pc, trace, child, ret, printed, stageFailed>>
    /\ UNCHANGED <<fs, gitDir, cleanup, initResult, i, exitStatus>>

CommitAdditional ==
    /\ pc = "addl_commit"
    /\ \E o \in Outcomes :
         Issue(<<>>, CommitCmd(dirs_to_add[j]), o, "addl_push", "addl_push", <<>>, <<>>)
    /\ UNCHANGED <<fs, gitDir, cleanup, initResult, i, j, stageFailed, exitStatus>>

PushAdditional_retry ==
    /\ pc = "addl_push"
    /\ \E o \in Outcomes :
         /\ Issue(<<>>, PushCmd(dirs_to_add[j]), o, "additional", "addl_push", <<>>, <<>>)
         /\ j' = IF run_cmd(o).value THEN j + 1 ELSE j
    /\ UNCHANGED <<fs, gitDir, cleanup, initResult, i, stageFailed, exitStatus>>

PushAdditional ==
    /\ pc = "addl_push"
    /\ \E o \in Outcomes :
         Issue(<<>>, PushCmd(dirs_to_add[j]), o, "additional", "additional", <<>>, <<>>)
    /\ j' = j + 1
    /\ UNCHANGED <<fs, gitDir, cleanup, initResult, i, stageFailed, exitStatus>>

Summary ==
    /\ pc = "summary"
    /\ trace' = trace \o <<Say("Deployment complete"), Say("Repository"),
                           Say("Note"), Say("Essential files pushed")>>
    /\ pc' = "return"
    /\ UNCHANGED <<fs, gitDir, cleanup, initResult, i, j, child, ret, printed,
                   stageFailed, exitStatus>>

\* main() returns (status 0) or an exception reaches the top level (status 1)
Exit ==
    /\ pc \in {"return", "crashed"}
    /\ exitStatus' = IF pc = "crashed" THEN <<1>> ELSE <<0>>
    /\ pc' = "exited"
    /\ UNCHANGED <<trace, fs, gitDir, cleanup, initResult, i, j, child, ret, printed,
                   stageFailed>>

Next ==
    \/ Start
    \/ Clean
    \/ InitRepo
    \/ Config1
    \/ Config2
    \/ Config3
    \/ AddRemote
    \/ EssentialBegin
    \/ StageEssential
    \/ CommitEssential
    \/ ForcePush
    \/ BatchesBegin
    \/ StageAdditional
    \/ CommitAdditional
    \/ PushAdditional
    \/ Summary
    \/ Exit

Spec == Init /\ [][Next]_vars

\* The single thread keeps executing as long as a statement remains.
FairSpec == Spec /\ WF_vars(Next)

\* ------------------------------------------------------------------------
\* Vocabulary for the properties

Has(e) == \E k \in DOMAIN trace : trace[k] = e

Count(e) == Cardinality({k \in DOMAIN trace : trace[k] = e})

\* a is in the trace and b is in the trace after it
Before(a, b) ==
    \E k \in DOMAIN trace : trace[k] = a /\ \E m \in (k + 1)..Len(trace) : trace[m] = b

IndexOf(s, x) == CHOOSE k \in DOMAIN s : s[k] = x

GitOps == {"init", "config", "remote_add", "add", "commit", "push_force", "push"}

Finished == pc \in {"return", "exited"}

\* the additional paths whose loop iteration is over (none when the run never
\* entered the additional-files phase)
DoneAdditional ==
    IF pc \in {"summary", "return", "exited"} /\ Has(Say("Adding additional files in batches"))
    THEN AdditionalSet
    ELSE IF pc \in {"additional", "addl_commit", "addl_push"}
         THEN {dirs_to_add[k] : k \in 1..(j - 1)}
    ELSE {}

\* ------------------------------------------------------------------------
\* C1: if `git init -b main` fails, no config, remote-add, stage, commit or
\* push command (forced or plain) is issued in the rest of the run.
C1_InitFailureHalts ==
    initResult = "failed" =>
        \A k \in DOMAIN trace :
            trace[k].op \notin {"config", "remote_add", "add", "commit", "push_force", "push"}

\* a run that ended after a failed init although files exist on disk
C1_Witness ==
    /\ initResult = "failed"
    /\ pc = "exited"
    /\ fs = EssentialSet \cup AdditionalSet

\* C2: when init succeeds the forced push is issued exactly once, after the
\* essential commit, whatever the outcomes of the other commands and whatever
\* essential files exist.
C2_ForcePushOnce ==
    /\ Count(ForcePushCmd) <= 1
    /\ Has(ForcePushCmd) => Before(EssentialCommitCmd, ForcePushCmd)
    /\ (Finished /\ initResult = "ok") => Count(ForcePushCmd) = 1

\* a finished run with no essential file on disk (so nothing was staged and
\* the commit had nothing to commit): the forced push was still issued once
C2_Witness ==
    /\ pc = "exited"
    /\ initResult = "ok"
    /\ fs \cap EssentialSet = {}
    /\ Count(ForcePushCmd) = 1

\* C3: an essential file is staged iff it exists on disk; the number of
\* essential stage commands equals the number of existing essential files; a
\* failed stage does not suppress the stage of a later existing file.
C3_EssentialStaging ==
    /\ \A f \in EssentialSet : Has(AddCmd(f)) => f \in fs
    /\ \A f \in EssentialSet :
         (pc = "essential" /\ IndexOf(essential_files, f) < i) =>
             (Has(AddCmd(f)) <=> f \in fs)
    /\ Has(EssentialCommitCmd) =>
         /\ \A f \in EssentialSet : Has(AddCmd(f)) <=> f \in fs
         /\ Cardinality({k \in DOMAIN trace :
                            trace[k].op = "add" /\ trace[k].arg \in EssentialSet})
              = Cardinality(fs \cap EssentialSet)

\* the first essential file failed to stage and the last one was staged
C3_Witness ==
    /\ essential_files[1] \in stageFailed
    /\ Has(AddCmd(essential_files[3]))
    /\ essential_files[2] \notin fs
    /\ Has(EssentialCommitCmd)

\* C4 as stated: every existing additional path gets stage, commit and push,
\* in that order, whatever the outcome of any of the three.
C4_Original ==
    \A p \in DoneAdditional :
        p \in fs =>
            /\ Before(AddCmd(p), CommitCmd(p))
            /\ Before(CommitCmd(p), PushCmd(p))

\* C4 amended: every existing additional path gets its stage command; its
\* commit and push are issued, in that order after the stage, exactly when the
\* stage command succeeded (a failed commit does not suppress the push).
C4_TripletAfterStage ==
    \A p \in DoneAdditional :
        p \in fs =>
            /\ Has(AddCmd(p))
            /\ p \notin stageFailed =>
                 /\ Before(AddCmd(p), CommitCmd(p))
                 /\ Before(CommitCmd(p), PushCmd(p))
            /\ p \in stageFailed => ~Has(CommitCmd(p)) /\ ~Has(PushCmd(p))

\* one path whose stage failed and one whose stage succeeded, both finished
C4_Witness ==
    /\ pc = "exited"
    /\ dirs_to_add[1] \in fs /\ dirs_to_add[1] \in stageFailed
    /\ dirs_to_add[2] \in fs /\ dirs_to_add[2] \notin stageFailed
    /\ Has(PushCmd(dirs_to_add[2]))

\* C5: a failure for one additional path never prevents the stage command of
\* a later existing path.
C5_LaterPathsStaged ==
    /\ \A p \in DoneAdditional : p \in fs => Has(AddCmd(p))
    /\ \A p \in AdditionalSet :
         (pc \in {"addl_commit", "addl_push"} /\ p = dirs_to_add[j] /\ p \in fs)
             => Has(AddCmd(p))

\* the first additional path failed to stage and the last one was staged
C5_Witness ==
    /\ dirs_to_add[1] \in stageFailed
    /\ Has(AddCmd(dirs_to_add[5]))
    /\ Has(PushCmd(dirs_to_add[3]))

\* C6: the steps are issued in strict sequence: cleanup, init, the three
\* configuration commands (autocrlf, filemode, compression), remote add, the
\* essential stages in list order, the essential commit, the forced push, the
\* per-path cycles of the additional paths in list order, the final summary;
\* no plain push precedes the forced push.
StepRank(e) ==
    IF e.op = "print"
    THEN (IF e.arg = "Cleaning up" THEN 1 ELSE IF e.arg = "Deployment complete" THEN 28 ELSE 0)
    ELSE IF e.op = "rmtree" THEN 2
    ELSE IF e.op = "init" THEN 3
    ELSE IF e = Cmd("config", "core.autocrlf false") THEN 4
    ELSE IF e = Cmd("config", "core.filemode false") THEN 5
    ELSE IF e = Cmd("config", "core.compression 0") THEN 6
    ELSE IF e.op = "remote_add" THEN 7
    ELSE IF e.op = "add" /\ e.arg \in EssentialSet THEN 7 + IndexOf(essential_files, e.arg)
    ELSE IF e = EssentialCommitCmd THEN 11
    ELSE IF e.op = "push_force" THEN 12
    ELSE IF e.op = "add" /\ e.arg \in AdditionalSet THEN 10 + 3 * IndexOf(dirs_to_add, e.arg)
    ELSE IF e.op = "commit" /\ e.arg \in AdditionalSet THEN 11 + 3 * IndexOf(dirs_to_add, e.arg)
    ELSE IF e.op = "push" /\ e.arg \in AdditionalSet THEN 12 + 3 * IndexOf(dirs_to_add, e.arg)
    ELSE 0

IsStep(e) == StepRank(e) > 0

\* the steps among the first k events have strictly increasing ranks below hi
RECURSIVE Ordered(_, _)
Ordered(k, hi) ==
    IF k = 0 THEN TRUE
    ELSE LET r == StepRank(trace[k]) IN
         IF r = 0 THEN trace[k].op = "print" /\ Ordered(k - 1, hi)
         ELSE r < hi /\ Ordered(k - 1, r)

C6_StrictSequence ==
    /\ Ordered(Len(trace), 29)
    /\ (Finished /\ initResult = "ok") => Has(Say("Deployment complete"))

\* the longest run: every path exists, .git is removed, every stage succeeds
C6_Witness ==
    /\ pc = "exited"
    /\ fs = EssentialSet \cup AdditionalSet
    /\ cleanup = "removed"
    /\ stageFailed = {}
    /\ Cardinality({k \in DOMAIN trace : IsStep(trace[k])}) = 28

\* C7: run_cmd returns true iff the child exited with status 0 and turns a
\* non-zero exit or an exception into false; no failure reaches the process
\* boundary, and every run ends with exit status 0.
RunCmdContract ==
    child.kind # "none" =>
        /\ ~ret.raised
        /\ ret.value = (child.kind = "exit" /\ child.code = 0)

C8_CleanupNeverAborts ==
    /\ cleanup # "none" => pc \notin {"start", "clean", "crashed"}
    /\ (cleanup # "none" /\ pc # "init") =>
         /\ Len(trace) >= 4
         /\ IF cleanup = "absent"
            THEN trace[4] = InitCmd /\ trace[3].op = "print"
            ELSE /\ Len(trace) >= 5
                 /\ trace[3] = RmtreeEvent /\ trace[4].op = "print" /\ trace[5] = InitCmd

\* the removal of .git hit an error and init was issued all the same
C8_Witness ==
    /\ cleanup = "error"
    /\ gitDir
    /\ Has(InitCmd)

\* C9: in the additional-files phase, stage, commit, plain push and the
\* "Adding ..." message are issued only for paths that exist; the number of
\* plain pushes never exceeds the number of existing additional paths.
C9_OnlyExistingPaths ==
    /\ \A k \in DOMAIN trace :
         (trace[k].arg \in AdditionalSet /\ trace[k].op \in {"add", "commit", "push", "print"})
             => trace[k].arg \in fs
    /\ Cardinality({k \in DOMAIN trace : trace[k].op = "push"})
         <= Cardinality(fs \cap AdditionalSet)

\* a whole run with no additional path on disk: the phase ran and did nothing
C9_Witness ==
    /\ pc = "exited"
    /\ initResult = "ok"
    /\ fs \cap AdditionalSet = {}
    /\ Has(Say("Adding additional files in batches"))
    /\ Has(Say("Deployment complete"))

\* C10: no step is retried: every command (init, each config, remote add,
\* each stage, each commit, the forced push, each path's plain push) is
\* issued at most once in a run.
C10_NoRetry ==
    LET issued == {k \in DOMAIN trace : trace[k].op \in GitOps} IN
    Cardinality({trace[k] : k \in issued}) = Cardinality(issued)

\* a finished run in which commands failed and every path was attempted
C10_Witness ==
    /\ pc = "exited"
    /\ fs = EssentialSet \cup AdditionalSet
    /\ stageFailed # {}
    /\ Has(PushCmd(dirs_to_add[5]))
    /\ printed # "none"

====
